---- MODULE Spec2Model ----
(***************************************************************************)
(* Lifecycle of the managed datastore driver of pkg/cluster/managed.go:    *)
(* driver resolution (assignManagedDriver), reset/start (start), the       *)
(* readiness prober (testClusterDB), route registration (initClusterDB),   *)
(* the membership proxy updater (setupEtcdProxy) and the certificate       *)
(* cleanup (cleanCerts).                                                   *)
(*                                                                         *)
(* Strings the code inspects (endpoint, driver names, token, join URL) are *)
(* sequences of one-character strings, so that prefix and split are        *)
(* computed as the code computes them.  Paths are opaque strings.          *)
(* Errors are tuples <<kind, index>>; Nil is the empty tuple.              *)
(***************************************************************************)
EXTENDS Integers, Sequences, FiniteSets, TLC

VARIABLES
    registered,     \* managed.Registered(): EndpointName of each driver, in registration order
    defaultDriver,  \* managed.Default()
    config,         \* c.config: Datastore (Endpoint, and Detail for its other fields),
                    \* ClusterInit, Token, JoinURL, ClusterReset
    managedDB,      \* c.managedDB: None, or the index of the bound driver in registered
    files,          \* the paths that exist on disk
    cleaned,        \* the cleanCerts calls of this boot: how many, and what the last one did
    boots,          \* number of process boots so far
    assignRet,      \* what this boot's assignManagedDriver call did
    startRet,       \* what this boot's start call did
    resets,         \* the driver's Reset over all boots: calls made, calls that succeeded
    history,        \* over all boots: the reset flag was set at each, a start call died, a boot ended
                    \* without start, the last boot whose start died between a successful Reset
                    \* and the removal of the marker; in this boot: where the prober was when
                    \* cancellation was requested
    ctxDone,        \* ctx.Done() is closed: cancellation has been requested
    result,         \* the channel testClusterDB returns: its state and the close(result) executed
    prober,         \* the goroutine of testClusterDB: its position and what it has done
    testRet,        \* what this boot's testClusterDB call did
    initRet,        \* what this boot's initClusterDB call did
    proxy,          \* the address list held by the etcd proxy
    updater,        \* the goroutine of setupEtcdProxy: its position and what it has done
    setupRet,       \* what this boot's setupEtcdProxy call did
    scope           \* how far a behaviour is followed: boots, failed Tests, ticks,
                    \* initClusterDB calls, and the member lists the cluster may report

vars == <<registered, defaultDriver, config, managedDB, files, cleaned, boots,
          assignRet, startRet, resets, history, ctxDone, result, prober, testRet,
          initRet, proxy, updater, setupRet, scope>>

resolverVars == <<registered, defaultDriver, scope>>
lifecycleVars == <<files, cleaned, startRet, resets>>
proberVars == <<result, prober, testRet>>
proxyVars == <<proxy, updater, setupRet>>

----------------------------------------------------------------------------
(* Bounds *)

MaxDrivers == 2
MaxEndpointLen == 3
MaxBoots == 2
MaxFails == 2
MaxTicks == 3
MaxAddrs == 2
MaxInits == 2
MaxLateFails == 2
MaxCleans == 2

----------------------------------------------------------------------------
(* Values *)

None == 0
Nil == <<>>

ErrIsInitialized(i) == <<"IsInitialized", i>>
ErrStat == <<"stat", 0>>
ErrResetDone == <<"cluster-reset was successfully performed", 0>>
ErrReset == <<"Reset", 0>>
ErrStart == <<"Start", 0>>
ErrRegister == <<"Register", 0>>
ErrMembers == <<"GetMembersClientURLs", 0>>

DriverNames == {<<"e">>, <<"e", "s">>}
EndpointChars == {"e", "s", ":"}

RECURSIVE StringsUpTo(_, _)
StringsUpTo(chars, n) ==
    IF n = 0 THEN {<<>>}
    ELSE LET shorter == StringsUpTo(chars, n - 1)
         IN  shorter \cup {Append(s, ch) : s \in {t \in shorter : Len(t) = n - 1}, ch \in chars}

Endpoints == StringsUpTo(EndpointChars, MaxEndpointLen)
Registries == StringsUpTo(DriverNames, MaxDrivers)
Secrets == {<<>>, <<"t">>}
AddrLists == StringsUpTo({"u1", "u2"}, MaxAddrs)
Handlers == {"h1", "h2"}

\* The fields of c.config.Datastore other than Endpoint, as one value:
\* NoDetail is what endpoint.Config{Endpoint: ...} leaves them at.
NoDetail == "unset"
Details == {NoDetail, "tls"}

\* The endpoints the route registrar is run over.
SchemeSep == <<":", "/", "/">>
RegistrarChars == {"e", ":", "/"}
RegistrarEndpoints == StringsUpTo(RegistrarChars, MaxEndpointLen + Len(SchemeSep) - 1)

ResetFile == "db/reset-flag"
OtherFile == "db/state"

----------------------------------------------------------------------------
(* strings.SplitN(s, ":", 2)[0] and strings.HasPrefix *)

RECURSIVE SplitFirst(_)
SplitFirst(s) ==
    IF s = <<>> THEN <<>>
    ELSE IF Head(s) = ":" THEN <<>>
    ELSE <<Head(s)>> \o SplitFirst(Tail(s))

HasPrefix(s, p) ==
    /\ Len(p) <= Len(s)
    /\ SubSeq(s, 1, Len(p)) = p

\* The process of this boot is running (it has not died inside start).
Alive == ~startRet.crashed

----------------------------------------------------------------------------
(* Driver Resolver: assignManagedDriver, managed.go:151-183 *)

Min(S) == CHOOSE x \in S : \A y \in S : x <= y

\* What driver.IsInitialized(ctx, c.config) may answer for each of n drivers:
\* (ok, err), the error of driver i being ErrIsInitialized(i).
InitAnswers(n) ==
    {[i \in 1..n |-> [ok |-> a[i].ok,
                      err |-> IF a[i].failed THEN ErrIsInitialized(i) ELSE Nil]] :
        a \in [1..n -> [ok : BOOLEAN, failed : BOOLEAN]]}

\* Where the first loop (153-160) stops: the first driver whose answer is an
\* error or "initialized"; 0 when the loop runs to its end.
FirstLoopStop_IgnoreError(init) ==
    LET hit == {i \in DOMAIN init : init[i].ok}
    IN  IF hit = {} THEN 0 ELSE Min(hit)

FirstLoopStop_LastInitialized(init) ==
    LET hit == {i \in DOMAIN init : init[i].err # Nil \/ init[i].ok}
        errs == {i \in DOMAIN init : init[i].err # Nil}
    IN  IF hit = {} THEN 0
        ELSE IF errs # {} THEN Min(errs)
        ELSE CHOOSE i \in hit : \A j \in hit : j <= i

FirstLoopStop(init) ==
    LET hit == {i \in DOMAIN init : init[i].err # Nil \/ init[i].ok}
    IN  IF hit = {} THEN 0 ELSE Min(hit)

\* The second loop (164-170): the first driver whose EndpointName equals the
\* endpoint up to its first colon; 0 when there is none.
EndpointMatch(regs, endpoint) ==
    LET endpointType == SplitFirst(endpoint)
        hit == {i \in DOMAIN regs : endpointType = regs[i]}
    IN  IF hit = {} THEN 0 ELSE Min(hit)

\* The condition of line 173.
WantsDefault_TokenOrURL(cfg) ==
    /\ cfg.Endpoint = <<>>
    /\ (cfg.ClusterInit \/ (cfg.Token # <<>> \/ cfg.JoinURL # <<>>))

WantsDefault(cfg) ==
    /\ cfg.Endpoint = <<>>
    /\ (cfg.ClusterInit \/ (cfg.Token # <<>> /\ cfg.JoinURL # <<>>))

\* The third loop (174-179): the first driver whose EndpointName equals
\* managed.Default(); 0 when there is none.
DefaultMatch(regs, dflt) ==
    LET hit == {i \in DOMAIN regs : regs[i] = dflt}
    IN  IF hit = {} THEN 0 ELSE Min(hit)

\* The calls a loop over drivers 1..k makes, in order.
LoopCalls(method, k) == [i \in 1..k |-> <<method, i>>]

RECURSIVE DefaultLoopCalls(_)
DefaultLoopCalls(k) ==
    IF k = 0 THEN <<>>
    ELSE DefaultLoopCalls(k - 1) \o <<<<"EndpointName", k>>, <<"Default", 0>>>>

\* assignManagedDriver as a function of the binding before the call, the
\* registry, the configuration and the drivers' answers: the binding after
\* the call, the error returned, the registry and driver calls made and the
\* number of assignments to c.managedDB (lines 157, 167, 176).
assignManagedDriver_FallThrough(db, regs, dflt, cfg, init) ==
    LET n == Len(regs)
        stop == FirstLoopStop(init)
        probes == LoopCalls("IsInitialized", IF stop = 0 THEN n ELSE stop)
        match == EndpointMatch(regs, cfg.Endpoint)
        names == LoopCalls("EndpointName", IF match = 0 THEN n ELSE match)
        first == IF stop # 0 THEN 1 ELSE 0
    IN  IF stop # 0 /\ init[stop].err # Nil
            THEN [managedDB |-> db, err |-> init[stop].err, calls |-> probes, writes |-> 0]
        ELSE IF match # 0
            THEN [managedDB |-> match, err |-> Nil, calls |-> probes \o names,
                  writes |-> first + 1]
        ELSE [managedDB |-> IF stop # 0 THEN stop ELSE db, err |-> Nil,
              calls |-> probes \o names, writes |-> first]

assignManagedDriver(db, regs, dflt, cfg, init) ==
    LET n == Len(regs)
        stop == FirstLoopStop(init)
        probes == LoopCalls("IsInitialized", IF stop = 0 THEN n ELSE stop)
        match == EndpointMatch(regs, cfg.Endpoint)
        names == LoopCalls("EndpointName", IF match = 0 THEN n ELSE match)
        dmatch == DefaultMatch(regs, dflt)
        dcalls == DefaultLoopCalls(IF dmatch = 0 THEN n ELSE dmatch)
    IN  IF stop # 0 /\ init[stop].err # Nil
            THEN [managedDB |-> db, err |-> init[stop].err, calls |-> probes, writes |-> 0]
        ELSE IF stop # 0
            THEN [managedDB |-> stop, err |-> Nil, calls |-> probes, writes |-> 1]
        ELSE IF match # 0
            THEN [managedDB |-> match, err |-> Nil, calls |-> probes \o names,
                  writes |-> 1]
        ELSE IF WantsDefault(cfg) /\ dmatch # 0
            THEN [managedDB |-> dmatch, err |-> Nil, calls |-> probes \o names \o dcalls,
                  writes |-> 1]
        ELSE IF WantsDefault(cfg)
            THEN [managedDB |-> db, err |-> Nil, calls |-> probes \o names \o dcalls,
                  writes |-> 0]
        ELSE [managedDB |-> db, err |-> Nil, calls |-> probes \o names, writes |-> 0]

AssignNotCalled ==
    [called |-> FALSE, err |-> Nil, calls |-> <<>>, answers |-> <<>>, writes |-> 0,
     bound |-> None]

AssignManagedDriver ==
    /\ Alive
    /\ ~assignRet.called
    /\ \E init \in InitAnswers(Len(registered)) :
         LET r == assignManagedDriver(managedDB, registered, defaultDriver, config, init)
             asked == {c[2] : c \in {r.calls[k] : k \in DOMAIN r.calls} \cap
                                     {<<"IsInitialized", i>> : i \in DOMAIN init}}
         IN  /\ managedDB' = r.managedDB
             /\ assignRet' = [called |-> TRUE, err |-> r.err, calls |-> r.calls,
                              answers |-> [i \in asked |-> init[i]],
                              writes |-> r.writes, bound |-> r.managedDB]
    /\ UNCHANGED <<resolverVars, lifecycleVars, proberVars, proxyVars, config, boots,
                   history, ctxDone, initRet>>


----------------------------------------------------------------------------
(* Cancellation of the context the caller passes to every operation *)

Cancel ==
    /\ Alive
    /\ ~ctxDone
    /\ ctxDone' = TRUE
    /\ history' = [history EXCEPT !.cancelledAt = prober.pc]
    /\ UNCHANGED <<resolverVars, lifecycleVars, proberVars, proxyVars, config, managedDB,
                   boots, assignRet, initRet>>

----------------------------------------------------------------------------
(* Readiness Prober: testClusterDB, managed.go:25-51 *)

NoChannel == [state |-> "none", closes |-> 0]
NoProber ==
    [pc |-> "none", tests |-> 0, fails |-> 0, waits |-> 0, ok |-> FALSE,
     preempted |-> FALSE, names |-> 0, late |-> 0, sawDone |-> FALSE, seen |-> {}]
TestNotCalled == [called |-> FALSE, err |-> Nil, fired |-> FALSE, spawned |-> FALSE]

\* close(result): lines 28 and 33.
close(ch) == [state |-> "closed", closes |-> ch.closes + 1]

\* Lines 26-31 and 50: the call itself.
testClusterDB(db) ==
    IF db = None
        THEN [result |-> close([state |-> "open", closes |-> 0]),
              prober |-> NoProber,
              ret |-> [called |-> TRUE, err |-> Nil, fired |-> TRUE, spawned |-> FALSE]]
        ELSE [result |-> [state |-> "open", closes |-> 0],
              prober |-> [NoProber EXCEPT !.pc = "test"],
              ret |-> [called |-> TRUE, err |-> Nil, fired |-> FALSE, spawned |-> TRUE]]

TestClusterDB ==
    /\ Alive
    /\ assignRet.called /\ assignRet.err = Nil
    /\ ~testRet.called
    /\ LET r == testClusterDB(managedDB)
       IN  /\ result' = r.result
           /\ prober' = r.prober
           /\ testRet' = r.ret
    /\ UNCHANGED <<resolverVars, lifecycleVars, proxyVars, config, managedDB, boots,
                   assignRet, history, ctxDone, initRet>>

\* Lines 35-40: one Test call, given whether ctx.Done() is closed.  A success
\* logs the driver's EndpointName and returns, which runs the deferred
\* close(result); a failure goes on to the select of line 42, which finds
\* ctx.Done() ready at once if it is closed already.
afterTest_NoReturn(p, ch, ok, done) ==
    IF ok
        THEN [prober |-> [p EXCEPT !.tests = @ + 1, !.ok = TRUE, !.names = @ + 1,
                                   !.late = IF done THEN @ + 1 ELSE @],
              result |-> close(ch)]
        ELSE [prober |-> [p EXCEPT !.tests = @ + 1, !.fails = @ + 1, !.pc = "wait",
                                   !.late = IF done THEN @ + 1 ELSE @,
                                   !.sawDone = done],
              result |-> ch]

afterTest(p, ch, ok, done) ==
    IF ok
        THEN [prober |-> [p EXCEPT !.tests = @ + 1, !.ok = TRUE, !.names = @ + 1,
                                   !.late = IF done THEN @ + 1 ELSE @,
                                   !.pc = "done"],
              result |-> close(ch)]
        ELSE [prober |-> [p EXCEPT !.tests = @ + 1, !.fails = @ + 1, !.pc = "wait",
                                   !.late = IF done THEN @ + 1 ELSE @,
                                   !.sawDone = done],
              result |-> ch]

\* A Test call begins and returns; the goroutine reads c.managedDB for it
\* (line 35, and line 38 after a success).  Failures are followed up to scope.fails
\* of them before cancellation and MaxLateFails more after it.
ProberTest ==
    /\ Alive
    /\ prober.pc = "test"
    /\ \E ok \in BOOLEAN :
         /\ ok \/ prober.fails < scope.fails + (IF ctxDone THEN MaxLateFails ELSE 0)
         /\ LET r == afterTest(prober, result, ok, ctxDone)
            IN  /\ prober' = [r.prober EXCEPT !.seen = @ \cup {managedDB}]
                /\ result' = r.result
    /\ UNCHANGED <<resolverVars, lifecycleVars, proxyVars, config, managedDB, boots,
                   assignRet, history, ctxDone, initRet, testRet>>

\* The select of lines 42-46: the timer of line 43 is created as the select
\* is entered, so it can be ready only after five seconds of waiting; if
\* ctx.Done() was closed already when the select was entered, that case is
\* taken at once.  If cancellation arrives during the wait, both cases can be
\* ready and either may be taken.
timerMayFire_Always(sawDone) == TRUE

timerMayFire(sawDone) == ~sawDone

\* Line 43: the five seconds pass.
ProberRetry ==
    /\ Alive
    /\ prober.pc = "wait"
    /\ timerMayFire(prober.sawDone)
    /\ prober' = [prober EXCEPT !.waits = @ + 1, !.pc = "test"]
    /\ UNCHANGED <<resolverVars, lifecycleVars, proxyVars, config, managedDB, boots,
                   assignRet, history, ctxDone, initRet, testRet, result>>

\* Lines 44-45: ctx.Done() is ready; the return runs the deferred
\* close(result) of line 33.
afterDone(p, ch) ==
    [prober |-> [p EXCEPT !.preempted = TRUE, !.pc = "done"], result |-> close(ch)]

ProberCancelled ==
    /\ Alive
    /\ prober.pc = "wait"
    /\ ctxDone
    /\ LET r == afterDone(prober, result)
       IN  /\ prober' = r.prober
           /\ result' = r.result
    /\ UNCHANGED <<resolverVars, lifecycleVars, proxyVars, config, managedDB, boots,
                   assignRet, history, ctxDone, initRet, testRet>>

----------------------------------------------------------------------------
(* Route Registrar: initClusterDB, managed.go:131-143 *)

NoDatastore == [Endpoint |-> <<>>, Detail |-> NoDetail]

InitNotCalled ==
    [called |-> FALSE, n |-> 0, given |-> "h1", handler |-> "h1", err |-> Nil,
     registered |-> FALSE, before |-> <<>>, arg |-> <<>>,
     was |-> NoDatastore, passed |-> NoDatastore, first |-> NoDatastore,
     answer |-> [handler |-> "h1", err |-> Nil]]

RegisterAnswers == [handler : Handlers, err : {Nil, ErrRegister}]

Datastore(cfg) == [Endpoint |-> cfg.Endpoint, Detail |-> cfg.Detail]

\* The condition of line 136, negated: the endpoint already starts with
\* "<EndpointName>://".
normalized_NamePrefix(endpoint, name) == HasPrefix(endpoint, name)

normalized(endpoint, name) == HasPrefix(endpoint, name \o SchemeSep)

\* The endpoint after lines 136-140.
normalize(endpoint, name) ==
    IF normalized(endpoint, name) THEN endpoint ELSE name

\* c.config after lines 136-140: the whole Datastore is replaced by
\* endpoint.Config{Endpoint: EndpointName}.
normalizeConfig(cfg, name) ==
    [cfg EXCEPT !.Endpoint = normalize(cfg.Endpoint, name),
                !.Detail = IF normalized(cfg.Endpoint, name) THEN @ ELSE NoDetail]

\* initClusterDB with a Register that would undo the normalization when it
\* fails, for comparison.
initClusterDB_RevertOnError(db, regs, cfg, handler, answer) ==
    IF db = None
        THEN [config |-> cfg, handler |-> handler, err |-> Nil, registered |-> FALSE,
              passed |-> NoDatastore]
        ELSE LET c1 == normalizeConfig(cfg, regs[db])
             IN  [config |-> IF answer.err # Nil THEN cfg ELSE c1,
                  handler |-> answer.handler, err |-> answer.err,
                  registered |-> TRUE, passed |-> Datastore(c1)]

\* initClusterDB as a function of the binding, the configuration, the handler
\* given and the driver's answer to Register: the configuration after the
\* call, what is returned, and the Datastore that Register was given.
initClusterDB(db, regs, cfg, handler, answer) ==
    IF db = None
        THEN [config |-> cfg, handler |-> handler, err |-> Nil, registered |-> FALSE,
              passed |-> NoDatastore]
        ELSE LET c1 == normalizeConfig(cfg, regs[db])
             IN  [config |-> c1, handler |-> answer.handler, err |-> answer.err,
                  registered |-> TRUE, passed |-> Datastore(c1)]

InitClusterDB ==
    /\ Alive
    /\ assignRet.called /\ assignRet.err = Nil
    /\ initRet.n < scope.inits
    /\ \E handler \in Handlers, answer \in RegisterAnswers :
         LET r == initClusterDB(managedDB, registered, config, handler, answer)
         IN  /\ config' = r.config
             /\ initRet' =
                  [called |-> TRUE, n |-> initRet.n + 1, given |-> handler,
                   handler |-> r.handler, err |-> r.err, registered |-> r.registered,
                   before |-> config.Endpoint, arg |-> r.passed.Endpoint,
                   was |-> Datastore(config), passed |-> r.passed,
                   first |-> IF initRet.n = 0 THEN Datastore(r.config) ELSE initRet.first,
                   answer |-> answer]
    /\ UNCHANGED <<resolverVars, lifecycleVars, proberVars, proxyVars, managedDB, boots,
                   assignRet, history, ctxDone>>

----------------------------------------------------------------------------
(* Membership Proxy Updater: setupEtcdProxy, managed.go:186-203 *)

NoTick ==
    [n |-> 0, err |-> Nil, urls |-> <<>>, before |-> <<>>, updates |-> 0, done |-> FALSE]
NoUpdater ==
    [pc |-> "none", queries |-> 0, updates |-> 0, good |-> 0, goodUrls |-> <<>>,
     late |-> 0, seen |-> {}, tick |-> NoTick]
SetupNotCalled == [called |-> FALSE, initial |-> <<>>]

\* What c.managedDB.GetMembersClientURLs(ctx) may answer.
MembersAnswers(lists) == [urls : lists, err : {Nil, ErrMembers}]

\* etcdProxy.Update(addresses): the proxy's address list becomes the given one.
Update(addresses, newAddresses) == newAddresses

\* Lines 186-190: the call itself.
setupEtcdProxy(db) ==
    IF db = None THEN NoUpdater ELSE [NoUpdater EXCEPT !.pc = "ticking"]

SetupEtcdProxy ==
    /\ Alive
    /\ assignRet.called /\ assignRet.err = Nil
    /\ ~setupRet.called
    /\ updater' = setupEtcdProxy(managedDB)
    /\ setupRet' = [called |-> TRUE, initial |-> proxy]
    /\ UNCHANGED <<resolverVars, lifecycleVars, proberVars, config, managedDB, boots,
                   assignRet, history, ctxDone, initRet, proxy>>

\* Lines 194-199, the body of the loop for one tick: the proxy's addresses
\* after it and the Update calls it made.
tick_UpdateOnError(addresses, answer) ==
    [proxy |-> Update(addresses, answer.urls), updates |-> 1]

tick(addresses, answer) ==
    IF answer.err # Nil
        THEN [proxy |-> addresses, updates |-> 0]
        ELSE [proxy |-> Update(addresses, answer.urls), updates |-> 1]

\* Line 193, where the goroutine is after the body of a tick, given whether
\* ctx.Done() is closed: `for range t.C` waits for the next tick whatever the
\* context says, and the ticker's channel is never closed.
afterTick_StopOnDone(done) == IF done THEN "done" ELSE "ticking"

afterTick(done) == "ticking"

\* Line 193: the ticker fires and the body runs, reading c.managedDB (line 194).
UpdaterTick ==
    /\ Alive
    /\ updater.pc = "ticking"
    /\ updater.tick.n < scope.ticks
    /\ \E answer \in MembersAnswers(scope.lists) :
         LET r == tick(proxy, answer)
             n == updater.tick.n + 1
         IN  /\ proxy' = r.proxy
             /\ updater' =
                  [updater EXCEPT
                     !.pc = afterTick(ctxDone),
                     !.late = IF ctxDone THEN @ + 1 ELSE @,
                     !.seen = @ \cup {managedDB},
                     !.queries = @ + 1,
                     !.updates = @ + r.updates,
                     !.good = IF answer.err = Nil THEN n ELSE @,
                     !.goodUrls = IF answer.err = Nil THEN answer.urls ELSE @,
                     !.tick = [n |-> n, err |-> answer.err, urls |-> answer.urls,
                               before |-> proxy, updates |-> r.updates,
                               done |-> ctxDone]]
    /\ UNCHANGED <<resolverVars, lifecycleVars, proberVars, config, managedDB, boots,
                   assignRet, history, ctxDone, initRet, setupRet>>

----------------------------------------------------------------------------
(* Files: os.Stat, os.Remove, cleanCerts (managed.go:55-98) *)

\* os.Remove(path) where the paths in stuck cannot be deleted (the call
\* fails and the file stays); removing an absent file changes nothing.
osRemove(fs, path, stuck) == IF path \in stuck THEN fs ELSE fs \ {path}

certs ==
    <<"tls/client-ca.crt",
      "tls/client-ca.key",
      "tls/server-ca.crt",
      "tls/server-ca.key",
      "tls/request-header-ca.crt",
      "tls/request-header-ca.key",
      "tls/service.key",
      "tls/client-admin.crt",
      "tls/client-admin.key",
      "tls/client-controller.crt",
      "tls/client-controller.key",
      "tls/client-cloud-controller.crt",
      "tls/client-cloud-controller.key",
      "tls/client-scheduler.crt",
      "tls/client-scheduler.key",
      "tls/client-kube-apiserver.crt",
      "tls/client-kube-apiserver.key",
      "tls/client-kube-proxy.crt",
      "tls/client-kube-proxy.key",
      "tls/client-PROGRAM-controller.crt",
      "tls/client-PROGRAM-controller.key",
      "tls/serving-kube-apiserver.crt",
      "tls/serving-kube-apiserver.key",
      "tls/client-kubelet.key",
      "tls/serving-kubelet.key",
      "tls/serving-kubelet.key",
      "tls/client-auth-proxy.key",
      "tls/etcd/server-ca.crt",
      "tls/etcd/server-ca.key",
      "tls/etcd/peer-ca.crt",
      "tls/etcd/peer-ca.key",
      "tls/etcd/server-client.crt",
      "tls/etcd/server-client.key",
      "tls/etcd/peer-server-client.crt",
      "tls/etcd/peer-server-client.key",
      "tls/etcd/client.crt",
      "tls/etcd/client.key">>

\* os.Remove on paths[k], paths[k+1], ... in turn.
RECURSIVE RemoveFrom(_, _, _, _)
RemoveFrom(fs, paths, k, stuck) ==
    IF k > Len(paths) THEN fs
    ELSE RemoveFrom(osRemove(fs, paths[k], stuck), paths, k + 1, stuck)

RemoveAll(fs, paths, stuck) == RemoveFrom(fs, paths, 1, stuck)

\* The loop of lines 95-97 over the given paths: the files left and the
\* paths os.Remove was called on, in order.  The result of os.Remove is not
\* looked at, so the loop reaches every path.
removeEach_StopOnError(fs, paths, stuck) ==
    LET failing == {k \in DOMAIN paths : paths[k] \in stuck}
        last == IF failing = {} THEN Len(paths) ELSE Min(failing)
    IN  [files |-> RemoveAll(fs, SubSeq(paths, 1, last), stuck),
         attempts |-> SubSeq(paths, 1, last)]

removeEach(fs, paths, stuck) ==
    [files |-> RemoveAll(fs, paths, stuck),
     attempts |-> [k \in 1..Len(paths) |-> paths[k]]]

\* cleanCerts returns nothing: reported is the errors it hands back.
cleanCerts(fs, stuck) ==
    LET r == removeEach(fs, certs, stuck)
    IN  [files |-> r.files, attempts |-> r.attempts, reported |-> <<>>]

\* The files the model lets exist, and the ones whose deletion may fail.
SomeCert == certs[1]
Paths == {ResetFile, SomeCert, OtherFile}
StuckSets == SUBSET {ResetFile, SomeCert}

\* The certificates the cleanup is run over on its own: the first of the
\* list, the one the list names twice, and the last.
CertFiles == {SomeCert, "tls/serving-kubelet.key", certs[Len(certs)]}

NotCleaned ==
    [n |-> 0, attempts |-> <<>>, before |-> {}, after |-> {}, failed |-> {},
     reported |-> <<>>]

\* The record of one more cleanCerts call, made on the files fs.
Cleaned(was, fs, stuck) ==
    LET r == cleanCerts(fs, stuck)
    IN  [n |-> was.n + 1, attempts |-> r.attempts, before |-> fs, after |-> r.files,
         failed |-> {path \in stuck : path \in fs /\ path \in {certs[k] : k \in DOMAIN certs}},
         reported |-> r.reported]

\* The driver runs the certificate-cleanup callback it was given (line 120).
CleanCerts ==
    /\ Alive
    /\ cleaned.n < MaxCleans
    /\ \E stuck \in SUBSET CertFiles :
         /\ files' = cleanCerts(files, stuck).files
         /\ cleaned' = Cleaned(cleaned, files, stuck)
    /\ UNCHANGED <<resolverVars, proberVars, proxyVars, config, managedDB, boots,
                   assignRet, startRet, resets, history, ctxDone, initRet>>

----------------------------------------------------------------------------
(* Lifecycle Coordinator: start, managed.go:102-128 *)

\* The driver's Reset: it may run the cleanCerts callback, and it creates the
\* reset marker; a Reset that fails may or may not have created it.
ResetAnswers ==
    {r \in [err : {Nil, ErrReset}, mark : BOOLEAN, clean : BOOLEAN] :
        r.err = Nil => r.mark}

DriverReset(fs, r, stuck) ==
    (IF r.clean THEN cleanCerts(fs, stuck).files ELSE fs)
        \cup (IF r.mark THEN {ResetFile} ELSE {})

\* What the environment does during one call of start: whether os.Stat fails
\* with an error other than "not exist", the driver's Reset, the paths that
\* cannot be deleted, the error of the driver's Start, and where (if at all)
\* the process dies.
CrashPoints == {"none", "afterStat", "afterReset", "afterRemove"}

StartEnvs ==
    [statFails : BOOLEAN, reset : ResetAnswers, stuck : StuckSets,
     startErr : {Nil, ErrStart}, crash : CrashPoints]

\* One step of start: the operation, whether the reset marker existed when
\* it began, and how it ended ("nil", "notexist" or "error").
\* The environments that differ for a call: the answers the call cannot ask
\* for (no driver bound, no reset requested, a stat that failed) are fixed.
QuietReset == [err |-> Nil, mark |-> TRUE, clean |-> FALSE]

StartEnvsFor(db, cfg) ==
    {env \in StartEnvs :
        /\ db = None =>
             /\ env.stuck = {}
             /\ env.startErr = Nil
             /\ env.crash = "none"
        /\ (db = None \/ ~cfg.ClusterReset) =>
             /\ ~env.statFails
             /\ env.reset = QuietReset
             /\ env.stuck \subseteq {ResetFile}
             /\ env.crash \in {"none", "afterRemove"}
        /\ env.statFails =>
             /\ env.reset = QuietReset
             /\ env.stuck = {}
             /\ env.startErr = Nil
             /\ env.crash = "none"
        /\ env.crash = "afterStat" =>
             /\ env.reset = QuietReset
             /\ env.stuck = {}
             /\ env.startErr = Nil
        /\ env.reset.err # Nil =>
             /\ ResetFile \notin env.stuck
             /\ env.startErr = Nil
             /\ env.crash \in {"none", "afterStat"}
        /\ env.crash = "afterReset" =>
             /\ ResetFile \notin env.stuck
             /\ env.startErr = Nil
        /\ env.crash = "afterRemove" => env.startErr = Nil
        /\ ~env.reset.clean => SomeCert \notin env.stuck}

Event(op, fs, ret) == [op |-> op, marker |-> ResetFile \in fs, ret |-> ret]

Ret(err) == IF err = Nil THEN "nil" ELSE "error"

RemoveRet(fs, path, stuck) ==
    IF path \notin fs THEN "notexist" ELSE IF path \in stuck THEN "error" ELSE "nil"

Returned(err, trace, fs) ==
    [called |-> TRUE, crashed |-> FALSE, err |-> err, trace |-> trace, files |-> fs]

Died(trace, fs) ==
    [called |-> TRUE, crashed |-> TRUE, err |-> Nil, trace |-> trace, files |-> fs]

\* Lines 124-127: remove the reset file, discarding the result, then Start.
RemoveThenStart(fs, trace, env) ==
    LET removed == osRemove(fs, ResetFile, env.stuck)
        tr1 == Append(trace, Event("Remove", fs, RemoveRet(fs, ResetFile, env.stuck)))
    IN  IF env.crash = "afterRemove" THEN Died(tr1, removed)
        ELSE Returned(env.startErr,
                      Append(tr1, Event("Start", removed, Ret(env.startErr))), removed)

\* Lines 108-123, reset requested.  os.Stat answers nil for a file that
\* exists and "not exist" for one that does not, unless it fails otherwise.
StatRet(fs, env) ==
    IF env.statFails THEN "error" ELSE IF ResetFile \in fs THEN "nil" ELSE "notexist"

ResetBranch_NoMarkerCheck(fs, env) ==
    LET tr1 == <<Event("Stat", fs, StatRet(fs, env))>>
        tr2 == Append(tr1, Event("Reset", fs, Ret(env.reset.err)))
        after == DriverReset(fs, env.reset, env.stuck)
    IN  IF env.statFails THEN Returned(ErrStat, tr1, fs)
        ELSE IF env.crash = "afterStat" THEN Died(tr1, fs)
        ELSE IF env.reset.err # Nil THEN Returned(env.reset.err, tr2, after)
        ELSE IF env.crash = "afterReset" THEN Died(tr2, after)
        ELSE RemoveThenStart(after, tr2, env)

ResetBranch_ContinueOnResetError(fs, env) ==
    LET tr1 == <<Event("Stat", fs, StatRet(fs, env))>>
        tr2 == Append(tr1, Event("Reset", fs, Ret(env.reset.err)))
        after == DriverReset(fs, env.reset, env.stuck)
    IN  IF env.statFails THEN Returned(ErrStat, tr1, fs)
        ELSE IF ResetFile \in fs THEN Returned(ErrResetDone, tr1, fs)
        ELSE IF env.crash = "afterStat" THEN Died(tr1, fs)
        ELSE IF env.crash = "afterReset" THEN Died(tr2, after)
        ELSE RemoveThenStart(after, tr2, env)

ResetBranch(fs, env) ==
    LET tr1 == <<Event("Stat", fs, StatRet(fs, env))>>
        tr2 == Append(tr1, Event("Reset", fs, Ret(env.reset.err)))
        after == DriverReset(fs, env.reset, env.stuck)
    IN  IF env.statFails THEN Returned(ErrStat, tr1, fs)
        ELSE IF ResetFile \in fs THEN Returned(ErrResetDone, tr1, fs)
        ELSE IF env.crash = "afterStat" THEN Died(tr1, fs)
        ELSE IF env.reset.err # Nil THEN Returned(env.reset.err, tr2, after)
        ELSE IF env.crash = "afterReset" THEN Died(tr2, after)
        ELSE RemoveThenStart(after, tr2, env)

start_AlwaysStat(db, cfg, fs, env) ==
    IF db = None THEN Returned(Nil, <<>>, fs)
    ELSE ResetBranch(fs, env)

start_NoNilCheck(db, cfg, fs, env) ==
    IF cfg.ClusterReset THEN ResetBranch(fs, env)
    ELSE RemoveThenStart(fs, <<>>, env)

start(db, cfg, fs, env) ==
    IF db = None THEN Returned(Nil, <<>>, fs)
    ELSE IF cfg.ClusterReset THEN ResetBranch(fs, env)
    ELSE RemoveThenStart(fs, <<>>, env)

StartNotCalled ==
    [called |-> FALSE, crashed |-> FALSE, err |-> Nil, trace |-> <<>>]

Ops(trace) == [k \in DOMAIN trace |-> trace[k].op]

Count(trace, op) == Cardinality({k \in DOMAIN trace : trace[k].op = op})

CountOK(trace, op) ==
    Cardinality({k \in DOMAIN trace : trace[k].op = op /\ trace[k].ret = "nil"})

\* The call died after a Reset that succeeded and before the marker was removed.
DiedInWindow(r) ==
    /\ r.crashed
    /\ Ops(r.trace) = <<"Stat", "Reset">>
    /\ r.trace[2].ret = "nil"

Start ==
    /\ Alive
    /\ assignRet.called /\ assignRet.err = Nil
    /\ ~startRet.called
    /\ \E env \in StartEnvsFor(managedDB, config) :
         LET r == start(managedDB, config, files, env)
         IN  /\ files' = r.files
             /\ startRet' = [called |-> TRUE, crashed |-> r.crashed, err |-> r.err,
                             trace |-> r.trace]
             /\ cleaned' = IF Count(r.trace, "Reset") > 0 /\ env.reset.clean
                                THEN Cleaned(cleaned, files, env.stuck)
                                ELSE cleaned
             /\ resets' = [invoked |-> resets.invoked + Count(r.trace, "Reset"),
                           succeeded |-> resets.succeeded + CountOK(r.trace, "Reset")]
             /\ history' = [history EXCEPT !.crashed = @ \/ r.crashed,
                                           !.window = IF DiedInWindow(r) THEN boots ELSE @]
    /\ UNCHANGED <<resolverVars, proberVars, proxyVars, config, managedDB, boots,
                   assignRet, ctxDone, initRet>>

\* The process ends (or has died) and the node boots again: memory is fresh,
\* the disk is as it was left, and the operator may have changed the
\* cluster-reset flag.
Reboot ==
    /\ boots < scope.boots
    /\ boots' = boots + 1
    /\ managedDB' = None
    /\ assignRet' = AssignNotCalled
    /\ startRet' = StartNotCalled
    /\ cleaned' = NotCleaned
    /\ \E flag \in BOOLEAN :
         /\ config' = [config EXCEPT !.ClusterReset = flag]
         /\ history' = [history EXCEPT !.resetKept = @ /\ flag,
                                       !.startSkipped = @ \/ ~startRet.called,
                                       !.cancelledAt = "never"]
    /\ ctxDone' = FALSE
    /\ result' = NoChannel
    /\ prober' = NoProber
    /\ testRet' = TestNotCalled
    /\ initRet' = InitNotCalled
    /\ updater' = NoUpdater
    /\ setupRet' = SetupNotCalled
    /\ UNCHANGED <<resolverVars, files, resets, proxy>>   \* proxy: not followed across boots

----------------------------------------------------------------------------
(* Specifications *)

FullScope ==
    [boots |-> MaxBoots, fails |-> MaxFails, ticks |-> MaxTicks, inits |-> 1,
     lists |-> AddrLists]

Configs(endpoints) ==
    [Endpoint : endpoints, Detail : {NoDetail}, ClusterInit : BOOLEAN, Token : Secrets,
     JoinURL : Secrets, ClusterReset : BOOLEAN]

InitProcess ==
    /\ managedDB = None
    /\ boots = 1
    /\ assignRet = AssignNotCalled
    /\ startRet = StartNotCalled
    /\ cleaned = NotCleaned
    /\ resets = [invoked |-> 0, succeeded |-> 0]
    /\ history = [resetKept |-> config.ClusterReset, crashed |-> FALSE,
                  startSkipped |-> FALSE, window |-> 0, cancelledAt |-> "never"]
    /\ ctxDone = FALSE
    /\ result = NoChannel
    /\ prober = NoProber
    /\ testRet = TestNotCalled
    /\ initRet = InitNotCalled
    /\ updater = NoUpdater
    /\ setupRet = SetupNotCalled

\* The resolver alone, over every registry, endpoint and bootstrap request.
InitResolver ==
    /\ registered \in Registries
    /\ defaultDriver \in DriverNames \cup {<<>>}
    /\ config \in {c \in Configs(Endpoints) : ~c.ClusterReset}
    /\ files = {}
    /\ proxy = <<>>
    /\ scope = FullScope
    /\ InitProcess

SpecResolver == InitResolver /\ [][AssignManagedDriver]_vars

\* One node: a registry of at most one driver, an endpoint that may name it.
NodeEndpoints == {<<>>, <<"e">>, <<"e", ":", "/", "/">>, <<"s", ":", "/", "/">>}

InitNode ==
    /\ registered \in {r \in Registries : Len(r) <= 1}
    /\ defaultDriver = <<"e">>
    /\ config \in {c \in Configs(NodeEndpoints) :
                     ~c.ClusterInit /\ c.Token = <<>> /\ c.JoinURL = <<>>}
    /\ InitProcess

\* Boots of a node: resolve, then start, over what the disk holds.
InitLifecycle ==
    /\ InitNode
    /\ scope = FullScope
    /\ config.Endpoint \in {<<>>, <<"e">>}
    /\ files \in SUBSET Paths
    /\ proxy = <<>>

NextLifecycle == AssignManagedDriver \/ Start \/ Reboot

SpecLifecycle == InitLifecycle /\ [][NextLifecycle]_vars

\* The readiness prober of one boot, with cancellation at any moment.
InitProber ==
    /\ InitNode
    /\ scope = FullScope
    /\ ~config.ClusterReset
    /\ files = {}
    /\ proxy = <<>>

NextProber ==
    \/ AssignManagedDriver
    \/ TestClusterDB
    \/ ProberTest
    \/ ProberRetry
    \/ ProberCancelled
    \/ Cancel

SpecProber == InitProber /\ [][NextProber]_vars

\* The same, where every Test call returns and the select of line 42 returns
\* once one of its cases is ready.
SpecProberLive ==
    /\ InitProber
    /\ [][NextProber]_vars
    /\ WF_vars(ProberTest)
    /\ WF_vars(ProberRetry \/ ProberCancelled)

\* The membership proxy updater of one boot, over what the proxy holds.
InitProxy ==
    /\ InitNode
    /\ scope = FullScope
    /\ ~config.ClusterReset
    /\ config.Endpoint \in {<<>>, <<"e">>}
    /\ files = {}
    /\ proxy \in {addresses \in AddrLists : Len(addresses) <= 1}

NextProxy == AssignManagedDriver \/ SetupEtcdProxy \/ UpdaterTick \/ Cancel

SpecProxy == InitProxy /\ [][NextProxy]_vars

\* The certificate cleanup on its own, run up to MaxCleans times over what
\* the disk holds, any of the certificates refusing to be deleted.
InitCerts ==
    /\ InitNode
    /\ scope = FullScope
    /\ ~config.ClusterReset
    /\ config.Endpoint = <<>>
    /\ registered = <<>>
    /\ files \in SUBSET (CertFiles \cup {ResetFile, OtherFile})
    /\ proxy = <<>>

SpecCerts == InitCerts /\ [][CleanCerts]_vars

\* The route registrar of one boot, called up to MaxInits times, over every
\* endpoint and with or without further Datastore detail.
InitRegistrar ==
    /\ registered \in {r \in Registries : Len(r) <= 1}
    /\ defaultDriver = <<"e">>
    /\ config \in {[c EXCEPT !.Detail = d] :
                     c \in {c \in Configs(RegistrarEndpoints) :
                              /\ ~c.ClusterInit /\ c.Token = <<>> /\ c.JoinURL = <<>>
                              /\ ~c.ClusterReset},
                     d \in Details}
    /\ InitProcess
    /\ scope = [FullScope EXCEPT !.inits = MaxInits]
    /\ files = {}
    /\ proxy = <<>>

NextRegistrar == AssignManagedDriver \/ InitClusterDB

SpecRegistrar == InitRegistrar /\ [][NextRegistrar]_vars

\* The whole of one boot of a node: every operation and both goroutines,
\* followed for one failed Test and one tick.
Init ==
    /\ InitNode
    /\ registered \in {<<>>, <<<<"e">>>>}
    /\ config.Endpoint \in {<<"e">>, <<"s", ":", "/", "/">>}
    /\ files \in {{}, {ResetFile}}
    /\ ~config.ClusterReset => files = {ResetFile}
    /\ proxy = <<"u1">>
    /\ scope = [boots |-> 1, fails |-> 1, ticks |-> 1, inits |-> 1, lists |-> {<<"u2">>}]

Next ==
    \/ AssignManagedDriver
    \/ Start
    \/ InitClusterDB
    \/ TestClusterDB
    \/ ProberTest
    \/ ProberRetry
    \/ ProberCancelled
    \/ SetupEtcdProxy
    \/ UpdaterTick
    \/ Cancel

Spec == Init /\ [][Next]_vars

----------------------------------------------------------------------------
(* Claims about start *)

Bound == managedDB # None
StartTrace == startRet.trace
ResetCall == startRet.called /\ Bound /\ config.ClusterReset

\* C1: with a driver bound and reset requested, a start call whose stat finds
\* the reset marker present returns the "cluster-reset was successfully
\* performed" error and invokes neither Reset nor Start; whenever the marker
\* exists as start is called, neither is invoked; and in every start call the
\* driver's Reset is invoked only right after a stat that found the marker
\* absent.
C1_ResetIdempotency ==
    /\ ResetCall =>
         /\ Len(StartTrace) >= 1
         /\ StartTrace[1].op = "Stat"
         /\ StartTrace[1].ret = "nil" =>
              /\ startRet.err = ErrResetDone
              /\ ~startRet.crashed
              /\ Ops(StartTrace) = <<"Stat">>
         /\ StartTrace[1].marker =>
              /\ Count(StartTrace, "Reset") = 0
              /\ Count(StartTrace, "Start") = 0
    /\ \A k \in DOMAIN StartTrace :
         StartTrace[k].op = "Reset" =>
              /\ config.ClusterReset
              /\ k > 1
              /\ StartTrace[k - 1].op = "Stat"
              /\ StartTrace[k - 1].ret = "notexist"
              /\ ~StartTrace[k].marker

C1_Witness ==
    /\ ResetCall
    /\ Ops(StartTrace) = <<"Stat">>
    /\ StartTrace[1].marker
    /\ StartTrace[1].ret = "nil"
    /\ startRet.err = ErrResetDone

\* A start call with reset requested whose stat found the marker absent and
\* whose Reset succeeded, and which ran to its return.
ResetSucceeded ==
    /\ ResetCall
    /\ ~startRet.crashed
    /\ Len(StartTrace) >= 2
    /\ StartTrace[1].ret = "notexist"
    /\ StartTrace[2].op = "Reset"
    /\ StartTrace[2].ret = "nil"

\* C2: with a driver bound, reset requested, the marker absent and Reset
\* succeeding, start invokes Reset once, then removes the marker the driver
\* created, then invokes Start once, and the marker does not exist when Start
\* is invoked.
C2_ResetThenStart ==
    ResetSucceeded =>
        /\ Ops(StartTrace) = <<"Stat", "Reset", "Remove", "Start">>
        /\ ~StartTrace[2].marker
        /\ StartTrace[3].marker
        /\ ~StartTrace[4].marker

\* What does hold of that call: the order of the four steps, each once, and
\* the marker is gone at Start exactly when os.Remove did not fail.
ResetThenStartOrder ==
    ResetSucceeded =>
        /\ Ops(StartTrace) = <<"Stat", "Reset", "Remove", "Start">>
        /\ ~StartTrace[2].marker
        /\ StartTrace[3].marker
        /\ StartTrace[3].ret \in {"nil", "error"}
        /\ StartTrace[4].marker <=> StartTrace[3].ret = "error"

\* C3: over boots that each call start once with the reset flag set, none of
\* which dies, the driver's Reset is invoked at most once in total (taken in
\* the executions where no Reset call failed).
C3_ResetAtMostOnce ==
    (/\ history.resetKept
     /\ ~history.crashed
     /\ ~history.startSkipped
     /\ resets.invoked = resets.succeeded) => resets.invoked <= 1

\* This boot follows one whose start died between a successful Reset and the
\* removal of the marker.
AfterCrashWindow == boots > 1 /\ history.window = boots - 1

StatFailed ==
    /\ Len(StartTrace) >= 1
    /\ StartTrace[1].op = "Stat"
    /\ StartTrace[1].ret = "error"

\* C12 as stated: after such a death the next boot's start, with a driver
\* bound and a stat that does not fail otherwise, returns the
\* "cluster-reset was successfully performed" error whether or not the reset
\* flag is still set.
C12_CrashWindowRejects ==
    (AfterCrashWindow /\ startRet.called /\ Bound /\ ~StatFailed) =>
        startRet.err = ErrResetDone

\* C12, amended: a start that dies between a successful Reset and the removal
\* of the marker leaves the marker on disk, and it is there until the next
\* boot's start; that start, with a driver bound and a stat that does not fail
\* otherwise, returns the "cluster-reset was successfully performed" error and
\* invokes neither Reset nor Start when the reset flag is still set; when the
\* flag is no longer set it does not stat and does not reject: it removes the
\* marker and invokes Start.
C12_CrashWindow ==
    /\ (startRet.called /\ DiedInWindow(startRet)) =>
         /\ ResetFile \in files
         /\ history.window = boots
    /\ (AfterCrashWindow /\ ~startRet.called) => ResetFile \in files
    /\ (AfterCrashWindow /\ startRet.called /\ Bound /\ ~StatFailed) =>
         /\ StartTrace[1].marker
         /\ IF config.ClusterReset
                THEN /\ startRet.err = ErrResetDone
                     /\ Ops(StartTrace) = <<"Stat">>
                ELSE /\ startRet.err # ErrResetDone
                     /\ StartTrace[1].op = "Remove"
                     /\ Count(StartTrace, "Stat") = 0
                     /\ Count(StartTrace, "Reset") = 0
                     /\ ~startRet.crashed => Ops(StartTrace) = <<"Remove", "Start">>

C12_Witness ==
    /\ AfterCrashWindow
    /\ startRet.called
    /\ Bound
    /\ ~config.ClusterReset
    /\ Ops(StartTrace) = <<"Remove", "Start">>
    /\ StartTrace[1].marker
    /\ ~StartTrace[2].marker
    /\ startRet.err = Nil

\* C13: within one start call with a driver bound: a stat that fails otherwise
\* than "not exist" ends the call with the stat error before Reset or Start;
\* a Reset that fails ends it with the Reset error before the marker is
\* removed or Start invoked; a Start that fails has its error returned; and
\* stat, Reset, the removal and Start each happen at most once.
C13_FailureAborts ==
    (startRet.called /\ Bound) =>
        /\ StatFailed =>
             /\ startRet.err = ErrStat
             /\ Ops(StartTrace) = <<"Stat">>
        /\ \A k \in DOMAIN StartTrace :
             /\ (StartTrace[k].op = "Reset" /\ StartTrace[k].ret = "error") =>
                  /\ startRet.err = ErrReset
                  /\ Ops(StartTrace) = <<"Stat", "Reset">>
                  /\ k = 2
             /\ (StartTrace[k].op = "Start" /\ StartTrace[k].ret = "error") =>
                  /\ startRet.err = ErrStart
                  /\ k = Len(StartTrace)
        /\ \A op \in {"Stat", "Reset", "Remove", "Start"} : Count(StartTrace, op) <= 1
        /\ startRet.err # Nil => ~startRet.crashed

\* A Reset that failed after creating the marker: the marker is left.
C13_Witness ==
    /\ startRet.called
    /\ Bound
    /\ Ops(StartTrace) = <<"Stat", "Reset">>
    /\ StartTrace[2].ret = "error"
    /\ startRet.err = ErrReset
    /\ ~StartTrace[2].marker
    /\ ResetFile \in files

\* C17: with a driver bound and reset not requested, a start call that runs
\* to its return removes the marker and then invokes Start, with no stat and
\* no rejection; and whenever start invokes Start, reset requested or not,
\* the marker does not exist.
C17_StartWithoutMarker ==
    /\ (startRet.called /\ Bound /\ ~config.ClusterReset /\ ~startRet.crashed) =>
         /\ Ops(StartTrace) = <<"Remove", "Start">>
         /\ startRet.err \in {Nil, ErrStart}
    /\ \A k \in DOMAIN StartTrace :
         StartTrace[k].op = "Start" => ~StartTrace[k].marker

\* What does hold of every Start: it directly follows the removal, and the
\* marker exists at it exactly when it existed and os.Remove failed.
StartFollowsRemove ==
    /\ (startRet.called /\ Bound /\ ~config.ClusterReset /\ ~startRet.crashed) =>
         /\ Ops(StartTrace) = <<"Remove", "Start">>
         /\ startRet.err \in {Nil, ErrStart}
    /\ \A k \in DOMAIN StartTrace :
         StartTrace[k].op = "Start" =>
             /\ k > 1
             /\ StartTrace[k - 1].op = "Remove"
             /\ StartTrace[k].marker <=> StartTrace[k - 1].ret = "error"

----------------------------------------------------------------------------
(* Claims about cleanCerts *)

CertList == {certs[k] : k \in DOMAIN certs}

\* C16: every cleanCerts call attempts the deletion of every path of the list,
\* in the list's order, whatever failed or was absent before it; it reports
\* no error; every listed path that existed and whose deletion did not fail is
\* gone after it; and no path outside the list is deleted.
C16_BestEffortCleanup ==
    cleaned.n > 0 =>
        /\ cleaned.attempts = certs
        /\ cleaned.reported = <<>>
        /\ cleaned.after = cleaned.before \ (CertList \ cleaned.failed)
        /\ (cleaned.before \ cleaned.after) \subseteq CertList
        /\ \A path \in cleaned.before \ CertList : path \in files

\* The second call of a boot, on a disk where the first listed certificate
\* cannot be deleted, one listed twice is absent, and the last is deleted.
C16_Witness ==
    /\ cleaned.n = 2
    /\ cleaned.failed = {certs[1]}
    /\ "tls/serving-kubelet.key" \notin cleaned.before
    /\ certs[Len(certs)] \in cleaned.before
    /\ OtherFile \in cleaned.before
    /\ files = {certs[1], OtherFile}
    /\ Len(cleaned.attempts) = Len(certs)

----------------------------------------------------------------------------
(* Claims about testClusterDB *)

\* C4: if cancellation is requested while the prober is in its retry wait and
\* the wait ends on it, the prober terminates without closing the channel
\* testClusterDB returned.
C4_CancelNeverFires ==
    (/\ history.cancelledAt = "wait"
     /\ prober.preempted
     /\ prober.pc = "done") => result.state = "open"

\* C5: with a driver bound and no cancellation, the channel is closed exactly
\* when a Test has succeeded, which is after n failed Tests, n retry waits and
\* n + 1 Test calls; the prober has then terminated; the channel is open while
\* every Test so far has failed; and it is never closed twice, cancellation or
\* not.
C5_ReadinessOnce ==
    /\ result.closes <= 1
    /\ (testRet.spawned /\ result.state = "closed") => prober.pc = "done"
    /\ (testRet.spawned /\ ~ctxDone) =>
         /\ prober.ok <=> result.state = "closed"
         /\ ~prober.ok =>
              /\ result.state = "open"
              /\ prober.tests = prober.fails
         /\ prober.ok =>
              /\ prober.tests = prober.fails + 1
              /\ prober.waits = prober.fails
              /\ result.closes = 1
              /\ prober.pc = "done"

C5_Witness ==
    /\ testRet.spawned
    /\ ~ctxDone
    /\ prober.ok
    /\ prober.fails = 2
    /\ prober.waits = 2
    /\ prober.tests = 3
    /\ result = [state |-> "closed", closes |-> 1]

\* What holds of the prober in every state: at most one Test call begins
\* after cancellation has been requested; it terminates only after a Test
\* call; and it gives up on cancellation only in the wait after a failed Test.
ProberObservesCancel ==
    /\ prober.late <= 1
    /\ prober.late <= prober.tests
    /\ (testRet.spawned /\ prober.pc = "done") => prober.tests >= 1
    /\ prober.preempted =>
         /\ ctxDone
         /\ prober.pc = "done"
         /\ prober.tests >= 1
         /\ prober.tests = prober.fails
         /\ ~prober.ok
    /\ (ctxDone /\ prober.pc = "wait" /\ prober.sawDone) => ~ENABLED ProberRetry
    /\ ctxDone => prober.fails < scope.fails + MaxLateFails

\* C18: with a driver bound, the prober calls Test at least once even when the
\* context is cancelled before testClusterDB is called; at most one Test call
\* begins after cancellation has been requested; and, every Test call
\* returning, the prober terminates once cancellation has been requested.
C18_CancelBetweenAttempts ==
    /\ []ProberObservesCancel
    /\ (testRet.spawned ~> prober.tests >= 1)
    /\ ((testRet.spawned /\ ctxDone) ~> prober.pc = "done")

\* Cancelled before testClusterDB was called: one Test, which fails, then the
\* prober gives up.
C18_Witness ==
    /\ history.cancelledAt = "none"
    /\ testRet.spawned
    /\ prober.pc = "done"
    /\ prober.preempted
    /\ prober.tests = 1
    /\ prober.late = 1
    /\ prober.waits = 0

----------------------------------------------------------------------------
(* Claims about setupEtcdProxy *)

\* C6: the proxy's address list is the list the most recent successful
\* GetMembersClientURLs call returned, or the list it held when setupEtcdProxy
\* was called if none has succeeded; a tick whose query fails makes no Update
\* call and leaves the list as it was, and a tick whose query succeeds makes
\* one and leaves exactly the returned list.
C6_ProxyFailOpen ==
    /\ setupRet.called =>
         proxy = IF updater.good = 0 THEN setupRet.initial ELSE updater.goodUrls
    /\ updater.tick.n > 0 =>
         IF updater.tick.err # Nil
             THEN /\ updater.tick.updates = 0
                  /\ proxy = updater.tick.before
             ELSE /\ updater.tick.updates = 1
                  /\ proxy = updater.tick.urls
    /\ updater.updates <= updater.good

C6_Witness ==
    /\ updater.tick.n = 2
    /\ updater.tick.err # Nil
    /\ updater.good = 1
    /\ updater.updates = 1
    /\ proxy = updater.goodUrls
    /\ proxy # setupRet.initial
    /\ proxy # updater.tick.urls


\* C14: once setupEtcdProxy has started its goroutine, the goroutine is never
\* in a state other than waiting for the next tick, cancellation or not; after
\* cancellation the next tick can still happen; and a tick that happens after
\* cancellation queries GetMembersClientURLs and, when the query succeeds,
\* applies Update with the list returned.
C14_UpdaterIgnoresCancel ==
    /\ (setupRet.called /\ Bound) => updater.pc = "ticking"
    /\ updater.pc \in {"none", "ticking"}
    /\ (updater.pc = "ticking" /\ ctxDone /\ updater.tick.n < scope.ticks) =>
         ENABLED UpdaterTick
    /\ updater.queries = updater.tick.n
    /\ updater.late <= updater.queries
    /\ (updater.tick.n > 0 /\ updater.tick.done) =>
         /\ updater.late >= 1
         /\ updater.tick.err = Nil =>
              /\ updater.tick.updates = 1
              /\ proxy = updater.tick.urls

C14_Witness ==
    /\ ctxDone
    /\ updater.pc = "ticking"
    /\ updater.late = 2
    /\ updater.queries = 3
    /\ updater.tick.done
    /\ updater.tick.err = Nil
    /\ proxy = updater.tick.urls
    /\ proxy # updater.tick.before

----------------------------------------------------------------------------
(* Claims about assignManagedDriver *)

\* The part of s before its first colon; all of s when it has none.
UpToColon(s) ==
    LET colons == {k \in DOMAIN s : s[k] = ":"}
    IN  IF colons = {} THEN s ELSE SubSeq(s, 1, Min(colons) - 1)

Answers == assignRet.answers
Initialized == {i \in DOMAIN Answers : Answers[i].ok}
Named(name) == {i \in DOMAIN registered : registered[i] = name}
Resolved == assignRet.called /\ assignRet.err = Nil
NoneInitialized ==
    /\ Resolved
    /\ Initialized = {}
    /\ Len(Answers) = Len(registered)

\* C7: when no IsInitialized call errors, the first driver in registration
\* order that reports initialized is bound, whatever the endpoint names, and
\* no driver after it is probed; if none reports initialized, the first driver
\* whose EndpointName equals the endpoint up to its first colon is bound.
C7_ResolverPrecedence ==
    Resolved =>
        /\ Initialized # {} =>
             /\ managedDB = Min(Initialized)
             /\ assignRet.calls = LoopCalls("IsInitialized", Min(Initialized))
        /\ Initialized = {} =>
             /\ Len(Answers) = Len(registered)
             /\ Named(UpToColon(config.Endpoint)) # {} =>
                  managedDB = Min(Named(UpToColon(config.Endpoint)))

C7_Witness ==
    /\ Resolved
    /\ Len(registered) = 2
    /\ Initialized = {2}
    /\ managedDB = 2
    /\ Named(UpToColon(config.Endpoint)) = {1}

\* C8: if a driver's IsInitialized returns an error before any earlier driver
\* has reported initialized, assignManagedDriver returns that error, leaves
\* the binding unset, probes no later driver and runs neither the endpoint
\* match nor the default phase.
C8_ResolverFailFast ==
    /\ \A i \in DOMAIN Answers :
         Answers[i].err # Nil =>
             /\ assignRet.err = Answers[i].err
             /\ i = Len(Answers)
    /\ (assignRet.called /\ assignRet.err # Nil) =>
         /\ Len(Answers) >= 1
         /\ assignRet.err = Answers[Len(Answers)].err
         /\ \A j \in 1..(Len(Answers) - 1) : Answers[j].err = Nil /\ ~Answers[j].ok
         /\ managedDB = None
         /\ assignRet.calls = LoopCalls("IsInitialized", Len(Answers))

C8_Witness ==
    /\ assignRet.called
    /\ assignRet.err = ErrIsInitialized(1)
    /\ Answers[1].ok
    /\ Len(registered) = 2
    /\ Named(UpToColon(config.Endpoint)) = {2}
    /\ managedDB = None

\* The bootstrap request of the default phase.
BootstrapRequested ==
    /\ config.Endpoint = <<>>
    /\ \/ config.ClusterInit
       \/ (config.Token # <<>> /\ config.JoinURL # <<>>)

\* C9: when no driver is initialized and none is named by the endpoint, the
\* registered driver that managed.Default() names (the first such, nothing
\* when there is none) is bound if the endpoint is empty and cluster-init is
\* set or both a token and a join URL are given; otherwise no driver is
\* bound; and no error is returned either way.
C9_ResolverDefault ==
    (/\ assignRet.called
     /\ \A i \in DOMAIN Answers : Answers[i].err = Nil /\ ~Answers[i].ok
     /\ Len(Answers) = Len(registered)
     /\ Named(UpToColon(config.Endpoint)) = {}) =>
        /\ assignRet.err = Nil
        /\ managedDB =
             IF BootstrapRequested /\ Named(defaultDriver) # {}
                 THEN Min(Named(defaultDriver))
                 ELSE None

C9_Witness ==
    /\ NoneInitialized
    /\ config.Endpoint = <<>>
    /\ ~config.ClusterInit
    /\ config.Token # <<>> /\ config.JoinURL # <<>>
    /\ Len(registered) = 2
    /\ Named(defaultDriver) = {2}
    /\ managedDB = 2


----------------------------------------------------------------------------
(* Claims about initClusterDB *)

\* s starts with the bound driver's EndpointName followed by "://".
StartsWithScheme(s) ==
    LET scheme == registered[managedDB] \o <<":", "/", "/">>
    IN  /\ Len(s) >= Len(scheme)
        /\ \A k \in 1..Len(scheme) : s[k] = scheme[k]

Registered == initRet.called /\ Bound

\* C11: with a driver bound, after initClusterDB the Datastore (endpoint and
\* detail) is as it was if the endpoint started with "<EndpointName>://", and
\* otherwise its endpoint is exactly the driver's EndpointName and its detail
\* is unset; Register was given that Datastore; and initClusterDB returned
\* the handler and the error Register returned.
C11_RegistrarNormalization ==
    Registered =>
        /\ IF StartsWithScheme(initRet.was.Endpoint)
               THEN Datastore(config) = initRet.was
               ELSE Datastore(config) =
                        [Endpoint |-> registered[managedDB], Detail |-> NoDetail]
        /\ initRet.registered
        /\ initRet.passed = Datastore(config)
        /\ initRet.handler = initRet.answer.handler
        /\ initRet.err = initRet.answer.err

\* An endpoint that begins with the driver's name and a colon, but not with
\* "<name>://", and carried detail: both are replaced.
C11_Witness ==
    /\ Registered
    /\ initRet.n = 1
    /\ registered[managedDB] = <<"e">>
    /\ initRet.was = [Endpoint |-> <<"e", ":", "/", "e">>, Detail |-> "tls"]
    /\ Datastore(config) = [Endpoint |-> <<"e">>, Detail |-> NoDetail]
    /\ initRet.handler = "h2"
    /\ initRet.given = "h1"
    /\ initRet.err = ErrRegister

\* C19: after a second initClusterDB call the Datastore is what the first
\* call left; the Datastore is normalized before Register is called, so a
\* Register that returns an error leaves the normalized value in the
\* configuration; and a Datastore once normalized starts with the scheme or
\* equals the driver's EndpointName.
C19_NormalizationIdempotent ==
    Registered =>
        /\ initRet.n >= 2 =>
             /\ Datastore(config) = initRet.first
             /\ initRet.was = initRet.first
        /\ initRet.err # Nil =>
             /\ Datastore(config) = initRet.passed
             /\ \/ StartsWithScheme(config.Endpoint)
                \/ Datastore(config) =
                       [Endpoint |-> registered[managedDB], Detail |-> NoDetail]

C19_Witness ==
    /\ Registered
    /\ initRet.n = 2
    /\ initRet.err = ErrRegister
    /\ registered[managedDB] = <<"e", "s">>
    /\ initRet.first = [Endpoint |-> <<"e", "s">>, Detail |-> NoDetail]
    /\ Datastore(config) = initRet.first

----------------------------------------------------------------------------
(* Claims about the binding *)

\* A step that changes c.managedDB is the assignManagedDriver call of the
\* boot, and that call assigned once.
WrittenByAssign ==
    managedDB' # managedDB =>
        /\ ~assignRet.called
        /\ assignRet'.called
        /\ assignRet'.writes = 1
        /\ managedDB = None
        /\ managedDB' = assignRet'.bound

\* The binding is what assignManagedDriver left, and every read of it by the
\* two goroutines saw that value.
BindingStable ==
    /\ assignRet.writes <= 1
    /\ assignRet.writes = 1 <=> (assignRet.called /\ assignRet.bound # None)
    /\ managedDB = assignRet.bound
    /\ (prober.seen \cup updater.seen) \subseteq {assignRet.bound}
    /\ prober.tests > 0 => prober.seen = {managedDB}
    /\ updater.queries > 0 => updater.seen = {managedDB}

\* C15: c.managedDB is assigned only by assignManagedDriver, at most once in a
\* call; start, initClusterDB, testClusterDB, setupEtcdProxy, cleanCerts and
\* the two goroutines leave it as it is; so, the goroutines being started
\* after assignManagedDriver has returned, each of their reads of it sees the
\* same value.
C15_WriteOnceBinding == [][WrittenByAssign]_vars /\ []BindingStable

\* Every operation has run, cleanCerts inside a Reset, and both goroutines
\* have read the binding more than once.
C15_Witness ==
    /\ Bound
    /\ assignRet.writes = 1
    /\ startRet.called /\ initRet.called /\ testRet.called /\ setupRet.called
    /\ cleaned.n = 1
    /\ prober.tests = 2
    /\ prober.seen = {managedDB}
    /\ updater.queries = 1
    /\ updater.seen = {managedDB}
    /\ ctxDone

----------------------------------------------------------------------------
(* Claims about the operations when no driver is bound *)

NoDriver == assignRet.called /\ assignRet.err = Nil /\ managedDB = None

\* The driver methods start, initClusterDB, testClusterDB, setupEtcdProxy and
\* the two goroutines have invoked in this boot.
DriverCalls ==
    Count(startRet.trace, "Reset") + Count(startRet.trace, "Start")
        + (IF initRet.registered THEN 1 ELSE 0)
        + prober.tests + prober.names + updater.queries

NoOps ==
    NoDriver =>
        /\ startRet.called =>
             /\ startRet.err = Nil
             /\ ~startRet.crashed
             /\ startRet.trace = <<>>
        /\ initRet.called =>
             /\ initRet.handler = initRet.given
             /\ initRet.err = Nil
             /\ config.Endpoint = initRet.before
        /\ testRet.called =>
             /\ testRet.err = Nil
             /\ testRet.fired
             /\ ~testRet.spawned
             /\ result = [state |-> "closed", closes |-> 1]
             /\ prober.pc = "none"
        /\ setupRet.called =>
             /\ updater.pc = "none"
             /\ updater.updates = 0
             /\ proxy = setupRet.initial
        /\ DriverCalls = 0

Untouched ==
    (NoDriver /\ NoDriver') =>
        /\ files' = files
        /\ config' = config
        /\ proxy' = proxy
        /\ managedDB' = managedDB

\* C10: with no driver bound, start returns success, initClusterDB returns
\* the handler it was given with no error and leaves the endpoint as it was,
\* testClusterDB returns a channel that is already closed and starts no
\* goroutine, setupEtcdProxy starts no goroutine and the proxy's list stays
\* as it was; no driver method is called and no file (the reset marker
\* included) is created or removed.
C10_NoDriverNoOps == [](NoOps) /\ [][Untouched]_vars

C10_Witness ==
    /\ NoDriver
    /\ startRet.called /\ initRet.called /\ testRet.called /\ setupRet.called
    /\ config.ClusterReset
    /\ ResetFile \in files
    /\ config.Endpoint = <<"s", ":", "/", "/">>
    /\ registered # <<>>
    /\ ctxDone


====
